---- MODULE Spec2Model ----
(***************************************************************************)
(* Model of aiobookoo/decode.py: the decoder of the 20-byte notification   *)
(* frames of the Bookoo scales (Mini and Themis Ultra).                     *)
(*                                                                         *)
(* Conventions.                                                            *)
(*  - A bytearray is a sequence of integers 0..255.  Python indexes from 0 *)
(*    and TLA+ from 1: payload[i] in the source is payload[i + 1] here,    *)
(*    and the slice payload[a:b] is Slice(payload, a, b).                  *)
(*  - A float the source obtains by dividing an integer by 100.0 or by     *)
(*    1000.0 is kept as that integer (hundredths of a gram, milliseconds): *)
(*    the division is correctly rounded, so the float is determined by the *)
(*    integer and two floats are equal exactly when the integers are.      *)
(*  - Python's None is the empty tuple None; a value v that may be None is *)
(*    held as Some(v) = <<v>>.                                             *)
(***************************************************************************)
EXTENDS Integers, Sequences, FiniteSets, TLC

VARIABLES
    byte_msg,   \* the buffer handed to decode
    pc,         \* position of the call in decode
    self,       \* None, or Some(the BookooMessage __init__ is constructing)
    ret,        \* None, or Some(the pair decode returned)
    exc,        \* None, or Some(the exception decode raised)
    sent,       \* the frame as the scale sent it, before any corruption
    flip        \* <<>>, or <<i, b>>: bit b of byte i was corrupted on the link

vars == <<byte_msg, pc, self, ret, exc, sent, flip>>

----------------------------------------------------------------------------
(* Bounds of the model.                                                    *)

\* Buffers of every length from 20 - LenSlack to 20 + LenSlack are decoded
\* (and the empty buffer).
LenSlack == 2

----------------------------------------------------------------------------
(* Python values.                                                          *)

None == <<>>
Some(v) == <<v>>

\* payload[a:b], for 0 <= a <= b (Python clips the slice to the buffer).
Slice(payload, a, b) ==
    SubSeq(payload, a + 1, IF b < Len(payload) THEN b ELSE Len(payload))

RECURSIVE Pow2(_)
Pow2(n) == IF n = 0 THEN 1 ELSE 2 * Pow2(n - 1)

\* a ^ b on non-negative integers, bit by bit.
RECURSIVE Xor(_, _)
Xor(a, b) ==
    IF a = 0 THEN b
    ELSE IF b = 0 THEN a
    ELSE ((a + b) % 2) + 2 * Xor(a \div 2, b \div 2)

\* int.from_bytes(bytes, byteorder="big", signed=signed).  Big-endian: the
\* last byte is the least significant.  When signed, the value is the two's
\* complement reading of the 8 * len(bytes) bits, which is the unsigned
\* reading with the most significant byte b taken as b - 256 when b >= 128.
RECURSIVE from_bytes(_, _)
from_bytes(bytes, signed) ==
    IF Len(bytes) = 0 THEN 0
    ELSE IF Len(bytes) = 1
    THEN (IF signed /\ bytes[1] >= 128 THEN bytes[1] - 256 ELSE bytes[1])
    ELSE 256 * from_bytes(SubSeq(bytes, 1, Len(bytes) - 1), signed)
         + bytes[Len(bytes)]

----------------------------------------------------------------------------
(* const.py and exceptions.py.                                             *)

\* The two marker bytes of a Mini frame (const.py: 0x03, 0x0B).
WEIGHT_BYTE1 == 3
WEIGHT_BYTE2 == 11

\* An exception of exceptions.py: it keeps the buffer it was raised with.
BookooException(kind, bytes_recvd) ==
    Some([kind |-> kind, bytes_recvd |-> bytes_recvd])

----------------------------------------------------------------------------
(* BookooMessage.__init__                                                  *)

\* Mutant of Symbol: positive only for an explicit "+" (43).
Symbol_plus_only(byte) == IF byte = 43 THEN 1 ELSE -1

\* weight_symbol, flow_symbol: -1 if the byte is ord("-") == 45 else 1
Symbol(byte) == IF byte = 45 THEN -1 ELSE 1

\* The attributes __init__ assigns before the checksum test.  timer is in
\* milliseconds, weight and flow_rate in hundredths.
BookooMessage_fields(payload) ==
    [ timer               |-> Some(from_bytes(Slice(payload, 3, 5), FALSE)),
      unit                |-> payload[5 + 1],
      weight_symbol       |-> Symbol(payload[6 + 1]),
      weight              |-> from_bytes(Slice(payload, 8, 10), FALSE)
                                * Symbol(payload[6 + 1]),
      flow_symbol         |-> Symbol(payload[10 + 1]),
      flow_rate           |-> Some(from_bytes(Slice(payload, 12, 13), FALSE)
                                * Symbol(payload[10 + 1])),
      battery             |-> payload[13 + 1],
      standby_time        |-> payload[14 + 1],
      buzzer_gear         |-> payload[16 + 1],
      flow_rate_smoothing |-> Some(payload[17 + 1]) ]

\* checksum = 0; for byte in payload[:-1]: checksum ^= byte
RECURSIVE XorFold(_)
XorFold(bytes) ==
    IF Len(bytes) = 0 THEN 0
    ELSE Xor(XorFold(SubSeq(bytes, 1, Len(bytes) - 1)), bytes[Len(bytes)])

\* Mutant of checksum: the fold starts at byte 1, payload[1:-1].
checksum_from_byte1(payload) == XorFold(SubSeq(payload, 2, Len(payload) - 1))

\* Mutant of checksum: the fold stops one byte early, payload[:-2].
checksum_without_byte18(payload) ==
    XorFold(SubSeq(payload, 1, Len(payload) - 2))

checksum(payload) == XorFold(SubSeq(payload, 1, Len(payload) - 1))

\* checksum != payload[-1]
checksum_mismatch(payload) == checksum(payload) # payload[Len(payload)]

----------------------------------------------------------------------------
(* Ultra                                                                   *)

\* Mutant of is_ultra_message: the second marker byte mistyped as 0xAB.
is_ultra_message_wrong_marker(payload) ==
    /\ Len(payload) = 20
    /\ payload[0 + 1] = 85
    /\ payload[1 + 1] = 171

is_ultra_message(payload) ==
    /\ Len(payload) = 20
    /\ payload[0 + 1] = 85      \* 0x55
    /\ payload[1 + 1] = 170     \* 0xAA

\* The body of the try block raises exactly when one of payload[14],
\* payload[15], payload[16] is out of range; the slice payload[6:10] and
\* int.from_bytes never raise.
ultra_raises(payload) == Len(payload) < 17

\* Mutant of ultra_weight: the four bytes read with byteorder="little".
ultra_weight_little_endian(payload) ==
    LET w == Slice(payload, 6, 10)
    IN  from_bytes([i \in 1..Len(w) |-> w[Len(w) + 1 - i]], TRUE)

ultra_weight(payload) == from_bytes(Slice(payload, 6, 10), TRUE)

\* Mutant of ultra_fields: standby_time and buzzer_gear read at their Mini
\* offsets, 14 and 16.
ultra_fields_mini_offsets(payload) ==
    [ weight              |-> ultra_weight(payload),
      timer               |-> None,
      flow_rate           |-> None,
      battery             |-> payload[13 + 1],
      buzzer_gear         |-> payload[16 + 1],
      standby_time        |-> payload[14 + 1],
      flow_rate_smoothing |-> None,
      unit                |-> 0 ]

ultra_fields(payload) ==
    [ weight              |-> ultra_weight(payload),
      timer               |-> None,
      flow_rate           |-> None,
      battery             |-> payload[14 + 1],
      buzzer_gear         |-> payload[15 + 1],
      standby_time        |-> payload[16 + 1],
      flow_rate_smoothing |-> None,
      unit                |-> 0 ]

\* Mutant of decode_ultra_message: the Mini checksum test applied to Ultra
\* frames, a failure caught by the except clause.
decode_ultra_message_checksummed(payload) ==
    IF ultra_raises(payload) \/ checksum_mismatch(payload)
    THEN Some([msg |-> None, rest |-> payload])
    ELSE Some([msg |-> Some(ultra_fields(payload)), rest |-> <<>>])

decode_ultra_message(payload) ==
    IF ultra_raises(payload)
    THEN Some([msg |-> None, rest |-> payload])
    ELSE Some([msg |-> Some(ultra_fields(payload)), rest |-> <<>>])

\* byte_msg[0] == WEIGHT_BYTE1 and byte_msg[1] == WEIGHT_BYTE2
is_mini_message(payload) ==
    /\ payload[0 + 1] = WEIGHT_BYTE1
    /\ payload[1 + 1] = WEIGHT_BYTE2

----------------------------------------------------------------------------
(* The frames the link delivers.                                           *)

\* Bytes 0 and 1: the Ultra marker, the Mini marker, and near misses.
Markers ==
    { <<85, 170>>, <<WEIGHT_BYTE1, WEIGHT_BYTE2>>, <<85, WEIGHT_BYTE2>>,
      <<WEIGHT_BYTE1, 170>>, <<170, 85>>, <<0, 0>> }

\* Bytes 6..9: the Mini sign byte and weight, the Ultra weight.
WeightBytes ==
    { <<45, 0, 48, 57>>,        \* "-", 0x3039 = 12345
      <<43, 0, 48, 57>>,        \* "+", 12345
      <<255, 255, 216, 241>>,   \* 0xFFFFD8F1
      <<255, 255, 216, 240>>,   \* 0xFFFFD8F0
      <<0, 0, 0, 0>>,
      <<128, 0, 0, 0>> }

\* The other bytes.
Fillers == { "zero", "minus", "mixed" }
Fill(f, i) ==
    CASE f = "zero"  -> 0
      [] f = "minus" -> 45
      [] f = "mixed" -> (37 * i + 11) % 256

\* The n-byte buffer with the given marker, weight bytes and filler.
Body(m, w, f, n) ==
    [ i \in 1..n |->
        IF i <= 2 THEN m[i]
        ELSE IF i >= 7 /\ i <= 10 THEN w[i - 6]
        ELSE Fill(f, i - 1) ]

\* The buffer with its last byte set to the XOR of the others.
Sealed(payload) ==
    IF Len(payload) = 0 THEN payload
    ELSE [payload EXCEPT ![Len(payload)] =
              XorFold(SubSeq(payload, 1, Len(payload) - 1))]

Lengths == {0} \cup ((20 - LenSlack)..(20 + LenSlack))

Frames ==
    { Body(m, w, f, n) : m \in Markers, w \in WeightBytes, f \in Fillers,
                         n \in Lengths }
    \cup
    { Sealed(Body(m, w, f, n)) : m \in Markers, w \in WeightBytes,
                                 f \in Fillers, n \in Lengths }

\* Bit b of the byte flipped.
FlipBit(byte, b) ==
    IF (byte \div Pow2(b)) % 2 = 1 THEN byte - Pow2(b) ELSE byte + Pow2(b)

----------------------------------------------------------------------------
(* decode                                                                  *)

Init ==
    /\ byte_msg \in Frames
    /\ pc = "decode"
    /\ self = None
    /\ ret = None
    /\ exc = None
    /\ sent = byte_msg
    /\ flip = <<>>

\* Mutant of decode_check_length: the lower limit off by one (< 19).
decode_check_length_off_by_one ==
    /\ pc = "decode"
    /\ IF Len(byte_msg) < 19
       THEN /\ exc' = BookooException("BookooMessageTooShort", byte_msg)
            /\ pc' = "raised"
       ELSE IF Len(byte_msg) > 20
       THEN /\ exc' = BookooException("BookooMessageTooLong", byte_msg)
            /\ pc' = "raised"
       ELSE /\ pc' = "classify"
            /\ UNCHANGED exc
    /\ UNCHANGED <<byte_msg, self, ret, sent, flip>>

\* if len(byte_msg) < 20: raise ...; if len(byte_msg) > 20: raise ...
decode_check_length ==
    /\ pc = "decode"
    /\ IF Len(byte_msg) < 20
       THEN /\ exc' = BookooException("BookooMessageTooShort", byte_msg)
            /\ pc' = "raised"
       ELSE IF Len(byte_msg) > 20
       THEN /\ exc' = BookooException("BookooMessageTooLong", byte_msg)
            /\ pc' = "raised"
       ELSE /\ pc' = "classify"
            /\ UNCHANGED exc
    /\ UNCHANGED <<byte_msg, self, ret, sent, flip>>

\* if is_ultra_message(byte_msg): return decode_ultra_message(byte_msg)
decode_ultra ==
    /\ pc = "classify"
    /\ is_ultra_message(byte_msg)
    /\ ret' = decode_ultra_message(byte_msg)
    /\ pc' = "returned"
    /\ UNCHANGED <<byte_msg, self, exc, sent, flip>>

\* if byte_msg[0] == WEIGHT_BYTE1 and byte_msg[1] == WEIGHT_BYTE2:
\*     ... BookooMessage(byte_msg) ...
decode_mini ==
    /\ pc = "classify"
    /\ ~ is_ultra_message(byte_msg)
    /\ is_mini_message(byte_msg)
    /\ pc' = "mini_init"
    /\ UNCHANGED <<byte_msg, self, ret, exc, sent, flip>>

\* BookooMessage.__init__, the field assignments
BookooMessage_init ==
    /\ pc = "mini_init"
    /\ self' = Some(BookooMessage_fields(byte_msg))
    /\ pc' = "mini_checksum"
    /\ UNCHANGED <<byte_msg, ret, exc, sent, flip>>

\* BookooMessage.__init__, the checksum test; then decode's
\* return (BookooMessage(byte_msg), bytearray())
BookooMessage_checksum ==
    /\ pc = "mini_checksum"
    /\ IF checksum_mismatch(byte_msg)
       THEN /\ exc' = BookooException("BookooMessageError", byte_msg)
            /\ pc' = "raised"
            /\ UNCHANGED ret
       ELSE /\ ret' = Some([msg |-> self, rest |-> <<>>])
            /\ pc' = "returned"
            /\ UNCHANGED exc
    /\ UNCHANGED <<byte_msg, self, sent, flip>>

\* Mutant of decode_unknown: the checksum test applied to unrecognized frames.
decode_unknown_checksummed ==
    /\ pc = "classify"
    /\ ~ is_ultra_message(byte_msg)
    /\ ~ is_mini_message(byte_msg)
    /\ IF checksum_mismatch(byte_msg)
       THEN /\ exc' = BookooException("BookooMessageError", byte_msg)
            /\ pc' = "raised"
            /\ UNCHANGED ret
       ELSE /\ ret' = Some([msg |-> None, rest |-> byte_msg])
            /\ pc' = "returned"
            /\ UNCHANGED exc
    /\ UNCHANGED <<byte_msg, self, sent, flip>>

\* Mutant of decode_unknown: an empty leftover returned, as on success.
decode_unknown_empty_rest ==
    /\ pc = "classify"
    /\ ~ is_ultra_message(byte_msg)
    /\ ~ is_mini_message(byte_msg)
    /\ ret' = Some([msg |-> None, rest |-> <<>>])
    /\ pc' = "returned"
    /\ UNCHANGED <<byte_msg, self, exc, sent, flip>>

\* return (None, byte_msg)
decode_unknown ==
    /\ pc = "classify"
    /\ ~ is_ultra_message(byte_msg)
    /\ ~ is_mini_message(byte_msg)
    /\ ret' = Some([msg |-> None, rest |-> byte_msg])
    /\ pc' = "returned"
    /\ UNCHANGED <<byte_msg, self, exc, sent, flip>>

Done == pc \in {"returned", "raised"}

\* The link corrupts one bit of the frame and the caller decodes the
\* corrupted frame in a new call of decode.
Corrupt ==
    /\ Done
    /\ flip = <<>>
    /\ \E i \in 0..(Len(sent) - 1), b \in 0..7 :
          /\ byte_msg' = [sent EXCEPT ![i + 1] = FlipBit(sent[i + 1], b)]
          /\ flip' = <<i, b>>
    /\ pc' = "decode"
    /\ self' = None
    /\ ret' = None
    /\ exc' = None
    /\ UNCHANGED sent

Next ==
    \/ decode_check_length
    \/ decode_ultra
    \/ decode_mini
    \/ BookooMessage_init
    \/ BookooMessage_checksum
    \/ decode_unknown
    \/ Corrupt

Spec == Init /\ [][Next]_vars

----------------------------------------------------------------------------
(* Reference readings of a frame, stated from the wire layout and used by  *)
(* the properties below.  B(i) is byte i of the buffer, counted from 0.    *)

B(i) == byte_msg[i + 1]

Bit(v, k) == (v \div Pow2(k)) % 2

\* Frame f carries the Ultra marker 0x55 0xAA / the Mini marker.
UltraMarked(f) == Len(f) >= 2 /\ f[1] = 85 /\ f[2] = 170
MiniMarked(f) == Len(f) >= 2 /\ f[1] = WEIGHT_BYTE1 /\ f[2] = WEIGHT_BYTE2

\* The XOR of bytes 0..18 of the 20-byte frame f equals byte 19: in every
\* bit position, the number of bytes 0..18 with the bit set is odd exactly
\* when byte 19 has the bit set.
XorMatches(f) ==
    \A k \in 0..7 :
        Cardinality({i \in 1..19 : Bit(f[i], k) = 1}) % 2 = Bit(f[20], k)

ValidMini(f) == Len(f) = 20 /\ MiniMarked(f) /\ XorMatches(f)

\* The buffer the current call of decode was handed.
Delivered ==
    IF flip = <<>> THEN sent
    ELSE [sent EXCEPT ![flip[1] + 1] = FlipBit(sent[flip[1] + 1], flip[2])]

Returned == pc = "returned"
Raised == pc = "raised"
RaisedWith(kind) ==
    Raised /\ exc = Some([kind |-> kind, bytes_recvd |-> Delivered])
    /\ ret = None
ReturnedRecord == Returned /\ ret # None /\ ret[1].msg # None /\ exc = None
ReturnedNone == Returned /\ ret # None /\ ret[1].msg = None /\ exc = None

MiniFieldSet ==
    { "timer", "unit", "weight_symbol", "weight", "flow_symbol", "flow_rate",
      "battery", "standby_time", "buzzer_gear", "flow_rate_smoothing" }
UltraFieldSet ==
    { "weight", "timer", "flow_rate", "battery", "buzzer_gear",
      "standby_time", "flow_rate_smoothing", "unit" }

TypeOK ==
    /\ byte_msg \in Seq(0..255)
    /\ byte_msg = Delivered
    /\ pc \in {"decode", "classify", "mini_init", "mini_checksum",
               "returned", "raised"}

----------------------------------------------------------------------------
(* C1: a buffer whose length is not 20, whatever its first bytes, never    *)
(* gets past the length test: decode raises BookooMessageTooShort below 20 *)
(* and BookooMessageTooLong above 20, the exception holds the buffer as    *)
(* handed in, and nothing is returned.                                     *)
C1_LengthErrors ==
    Len(byte_msg) # 20 =>
        /\ pc \in {"decode", "raised"}
        /\ self = None
        /\ ret = None
        /\ Raised /\ Len(byte_msg) < 20 => RaisedWith("BookooMessageTooShort")
        /\ Raised /\ Len(byte_msg) > 20 => RaisedWith("BookooMessageTooLong")

C1_Witness ==
    /\ RaisedWith("BookooMessageTooLong")
    /\ Len(byte_msg) = 21
    /\ UltraMarked(byte_msg)

(* C2: for a 20-byte frame with the Mini marker, decode returns a record   *)
(* exactly when the XOR of bytes 0..18 equals byte 19; otherwise it raises *)
(* BookooMessageError holding the frame and returns nothing, although the  *)
(* fields had been extracted.                                              *)
C2_MiniChecksumGate ==
    Len(byte_msg) = 20 /\ MiniMarked(byte_msg) /\ (Returned \/ Raised) =>
        IF XorMatches(byte_msg)
        THEN ReturnedRecord /\ ret[1].rest = <<>>
        ELSE RaisedWith("BookooMessageError") /\ self # None

C2_Witness ==
    /\ Len(byte_msg) = 20 /\ MiniMarked(byte_msg)
    /\ ~ XorMatches(byte_msg)
    /\ RaisedWith("BookooMessageError")
    /\ self # None

(* C3, as stated: after one bit of any of bytes 0..18 of a valid Mini      *)
(* frame is flipped, decode of the corrupted frame raises                  *)
(* BookooMessageError.                                                     *)
C3_Original ==
    /\ ValidMini(sent)
    /\ flip # <<>>
    /\ flip[1] <= 18
    /\ (Returned \/ Raised)
    => RaisedWith("BookooMessageError")

(* C3, amended: the flip makes decode raise BookooMessageError when it is  *)
(* in one of bytes 2..18; a flip in byte 0 or 1 destroys the Mini marker   *)
(* and decode does not raise BookooMessageError for that frame.            *)
C3_BitFlipDetected ==
    /\ ValidMini(sent)
    /\ flip # <<>>
    /\ flip[1] <= 18
    /\ (Returned \/ Raised)
    => IF flip[1] >= 2
       THEN RaisedWith("BookooMessageError")
       ELSE ~ Raised

C3_Witness ==
    /\ ValidMini(sent)
    /\ flip # <<>>
    /\ flip[1] = 18
    /\ RaisedWith("BookooMessageError")

(* C4: a 20-byte frame that starts with 0x55 0xAA is handled by the Ultra  *)
(* decoder alone: the call never enters BookooMessage.__init__ or its      *)
(* checksum test, never raises, and what it returns is an Ultra record,    *)
(* also when the XOR of bytes 0..18 differs from byte 19.                  *)
C4_UltraFirst ==
    Len(byte_msg) = 20 /\ UltraMarked(byte_msg) =>
        /\ pc \in {"decode", "classify", "returned"}
        /\ self = None
        /\ exc = None
        /\ Returned => ReturnedRecord /\ DOMAIN ret[1].msg[1] = UltraFieldSet

C4_Witness ==
    /\ Len(byte_msg) = 20 /\ UltraMarked(byte_msg)
    /\ ~ XorMatches(byte_msg)
    /\ ReturnedRecord
    /\ DOMAIN ret[1].msg[1] = UltraFieldSet

(* C5, as stated: an Ultra frame with bytes 6..9 = FF FF D8 F1 decodes to  *)
(* weight -100.00, that is -10000 hundredths.                              *)
C5_Original ==
    /\ Len(byte_msg) = 20 /\ UltraMarked(byte_msg)
    /\ <<B(6), B(7), B(8), B(9)>> = <<255, 255, 216, 241>>
    /\ Returned
    => ReturnedRecord /\ ret[1].msg[1].weight = -10000

(* C5, amended: 0xFFFFD8F1 is -9999, so bytes FF FF D8 F1 decode to weight *)
(* -99.99 (-9999 hundredths); weight -100.00 (-10000 hundredths) is what   *)
(* bytes FF FF D8 F0 decode to.                                            *)
C5_UltraNegativeWeight ==
    Len(byte_msg) = 20 /\ UltraMarked(byte_msg) /\ Returned =>
        /\ <<B(6), B(7), B(8), B(9)>> = <<255, 255, 216, 241>>
             => ReturnedRecord /\ ret[1].msg[1].weight = -9999
        /\ <<B(6), B(7), B(8), B(9)>> = <<255, 255, 216, 240>>
             => ReturnedRecord /\ ret[1].msg[1].weight = -10000

C5_Witness ==
    /\ Len(byte_msg) = 20 /\ UltraMarked(byte_msg)
    /\ <<B(6), B(7), B(8), B(9)>> = <<255, 255, 216, 241>>
    /\ ReturnedRecord
    /\ ret[1].msg[1].weight = -9999

(* C6: for a 20-byte frame with neither marker, decode returns None with   *)
(* the frame itself, unmodified, as the leftover, and never raises,        *)
(* whether or not the XOR of bytes 0..18 equals byte 19.                   *)
C6_UnknownPassThrough ==
    /\ Len(byte_msg) = 20
    /\ ~ UltraMarked(byte_msg)
    /\ ~ MiniMarked(byte_msg)
    =>
    /\ pc \in {"decode", "classify", "returned"}
    /\ self = None
    /\ Returned => ReturnedNone /\ ret[1].rest = Delivered

C6_Witness ==
    /\ Len(byte_msg) = 20
    /\ ~ UltraMarked(byte_msg)
    /\ ~ MiniMarked(byte_msg)
    /\ ~ XorMatches(byte_msg)
    /\ ReturnedNone
    /\ ret[1].rest = Delivered

(* C7: the record returned for a valid Mini frame has, as scaled integers, *)
(* timer (ms) = 256 * byte 3 + byte 4, unit = byte 5, weight (hundredths)  *)
(* = 256 * byte 8 + byte 9, negated exactly when byte 6 is 0x2D, flow_rate *)
(* (hundredths) = byte 12, negated exactly when byte 10 is 0x2D, battery = *)
(* byte 13, standby_time = byte 14, buzzer_gear = byte 16 and              *)
(* flow_rate_smoothing = byte 17; weight bytes 0x30 0x39 give 12345, or    *)
(* -12345 with "-" at offset 6.                                            *)
C7_MiniLayout ==
    Len(byte_msg) = 20 /\ MiniMarked(byte_msg) /\ Returned =>
        /\ ReturnedRecord
        /\ LET m == ret[1].msg[1] IN
           /\ m.timer = Some(256 * B(3) + B(4))
           /\ m.unit = B(5)
           /\ m.weight = IF B(6) = 45 THEN - (256 * B(8) + B(9))
                                      ELSE 256 * B(8) + B(9)
           /\ m.flow_rate = Some(IF B(10) = 45 THEN - B(12) ELSE B(12))
           /\ m.battery = B(13)
           /\ m.standby_time = B(14)
           /\ m.buzzer_gear = B(16)
           /\ m.flow_rate_smoothing = Some(B(17))
           /\ B(8) = 48 /\ B(9) = 57 =>
                 m.weight = IF B(6) = 45 THEN -12345 ELSE 12345

C7_Witness ==
    /\ ValidMini(byte_msg)
    /\ B(6) = 45 /\ B(8) = 48 /\ B(9) = 57
    /\ ReturnedRecord
    /\ ret[1].msg[1].weight = -12345

FullMiniRecord(m) ==
    /\ DOMAIN m = MiniFieldSet
    /\ m.timer # None /\ m.flow_rate # None /\ m.flow_rate_smoothing # None
    /\ m.weight \in Int /\ m.unit \in 0..255 /\ m.battery \in 0..255
    /\ m.standby_time \in 0..255 /\ m.buzzer_gear \in 0..255

FullUltraRecord(m) ==
    /\ DOMAIN m = UltraFieldSet
    /\ m.timer = None /\ m.flow_rate = None /\ m.flow_rate_smoothing = None
    /\ m.weight \in Int /\ m.unit = 0 /\ m.battery \in 0..255
    /\ m.standby_time \in 0..255 /\ m.buzzer_gear \in 0..255

OutcomeError ==
    /\ Raised /\ exc # None /\ ret = None
    /\ exc[1].kind \in {"BookooMessageTooShort", "BookooMessageTooLong",
                        "BookooMessageError"}

OutcomeRecord ==
    /\ ReturnedRecord
    /\ ret[1].rest = <<>>
    /\ IF UltraMarked(byte_msg) THEN FullUltraRecord(ret[1].msg[1])
                                ELSE FullMiniRecord(ret[1].msg[1])

OutcomePassThrough ==
    /\ ReturnedNone
    /\ ret[1].rest = Delivered
    /\ ret[1].rest # <<>>

C9_ThreeOutcomes ==
    (Returned \/ Raised) =>
        \/ OutcomeError /\ ~ OutcomeRecord /\ ~ OutcomePassThrough
        \/ OutcomeRecord /\ ~ OutcomeError /\ ~ OutcomePassThrough
        \/ OutcomePassThrough /\ ~ OutcomeError /\ ~ OutcomeRecord

C9_Witness ==
    /\ OutcomeRecord
    /\ MiniMarked(byte_msg)
    /\ flip # <<>>

(* C10: for a 20-byte frame that starts with 0x55 0xAA, a finished call of *)
(* decode has returned a record with an empty leftover: it has not raised  *)
(* and has not returned None.                                              *)
C10_UltraNeverRejected ==
    Len(byte_msg) = 20 /\ UltraMarked(byte_msg) /\ (Returned \/ Raised) =>
        /\ ReturnedRecord
        /\ ret[1].rest = <<>>

C10_Witness ==
    /\ Len(byte_msg) = 20 /\ UltraMarked(byte_msg)
    /\ flip # <<>> /\ flip[1] >= 2
    /\ ~ XorMatches(byte_msg)
    /\ ReturnedRecord
    /\ ret[1].rest = <<>>

====
